---- MODULE Spec2Model ----
(***************************************************************************)
(* CharacterExplorer (src/lib.py): the aggregation run of one character.   *)
(*                                                                         *)
(*   fetch()               batched multi-request, mail scan, type names,   *)
(*                         compaction of the per-page fragments, name      *)
(*                         resolution, publication in self.data            *)
(*   fetch_mail()          the backward scan of the mail feed              *)
(*   compact_pagination()  merge of the 'root-N' fragments                 *)
(*   resolve_names() / _ids_to_names()   batched id -> name resolution     *)
(*                                                                         *)
(* Python values are encoded as follows.  A dict is a sequence of          *)
(* [key, value] entries in insertion order (Python dicts iterate in        *)
(* insertion order).  A dict key 'journal-2' is [root |-> "journal",       *)
(* page |-> 2]; a key without '-' has page 0.  A response payload is       *)
(* tagged with its Python shape: a list of records, a scalar, or the       *)
(* error document of a failed response (a dict, not a list).  Times are    *)
(* whole days.                                                             *)
(***************************************************************************)
EXTENDS Integers, Sequences, FiniteSets, TLC

VARIABLES
  pc,          \* position in the run
  raised,      \* the exception that ended the run, "none" while there is none
  operations,  \* fetch: the ordered dict of requests (its keys)
  failed,      \* the requests the API answers with a non-success response
  results,     \* fetch: the keys of multi_request's results, in arrival order
  fetched,     \* fetch: the local dict 'fetched'
  pre,         \* 'fetched' as it was handed to compact_pagination
  data,        \* self.data
  feed,        \* the character's mail headers on the server, newest first
  server,      \* "honest": pages hold only mail older than the cursor;
               \* "replaying": a page may repeat mail already delivered
  back_until,  \* fetch_mail's argument: <<>> for None, <<t>> for a time
  mdata,       \* fetch_mail: the local list 'data'
  fetches,     \* fetch_mail: requests issued so far
  lastpage,    \* the page the last mail request returned
  delivered,   \* every mail page returned so far, concatenated
  exhausted,   \* a cursor request has returned no mail that was not yet held
  ids,         \* resolve_names: the list handed to _ids_to_names
  group_ix,    \* _ids_to_names: groups handled so far
  calls,       \* _ids_to_names: per call, the id set sent and how it ended
  names_data,  \* _ids_to_names: the local 'data' (entries of good responses)
  ids_lookup   \* resolve_names: the dict _ids_to_names returned

vars == <<pc, raised, operations, failed, results, fetched, pre, data, feed,
          server, back_until, mdata, fetches, lastpage, delivered, exhausted,
          ids, group_ix, calls, names_data, ids_lookup>>

fetch_vars == <<operations, failed, results, fetched, pre, data>>
mail_env   == <<feed, server, back_until>>
mail_vars  == <<mdata, fetches, lastpage, delivered, exhausted>>
names_vars == <<ids, group_ix, calls, names_data, ids_lookup>>

(***************************************************************************)
(* Bounds of the model.                                                    *)
(***************************************************************************)
MaxTotalPages == 3   \* contact pages + wallet journal pages
MaxMail       == 3   \* mail headers on the server
PageLen       == 2   \* mail headers per page (the server's page size)
MaxGroups     == 2   \* full resolution groups in a bulk dataset
Now           == 200 \* utcnow(), in days

MaxFetches == MaxMail + 2

(***************************************************************************)
(* Program constants.                                                      *)
(***************************************************************************)
group_size == 1000
BackDays   == 180

UNKNOWN == <<"<unknown>">>

Min(a, b) == IF a < b THEN a ELSE b
Last(s)   == s[Len(s)]
Range(s)  == { s[i] : i \in 1..Len(s) }

RECURSIVE Flatten(_)
Flatten(ss) == IF ss = <<>> THEN <<>> ELSE Head(ss) \o Flatten(Tail(ss))

(***************************************************************************)
(* Python dicts.                                                           *)
(***************************************************************************)
Key(root, page) == [root |-> root, page |-> page]
Plain(root)     == Key(root, 0)

Keys(d)   == [i \in 1..Len(d) |-> d[i].key]
Has(d, k) == \E i \in 1..Len(d) : d[i].key = k
Get(d, k) == d[CHOOSE i \in 1..Len(d) : d[i].key = k].value

\* d[k] = v: an existing key keeps its place, a new key goes last
Put(d, k, v) ==
  IF Has(d, k)
    THEN [i \in 1..Len(d) |-> IF d[i].key = k THEN [key |-> k, value |-> v] ELSE d[i]]
    ELSE Append(d, [key |-> k, value |-> v])

\* del d[k]
Del(d, k) == SelectSeq(d, LAMBDA e : e.key # k)

RECURSIVE Update(_, _)
\* d.update(e)
Update(d, e) ==
  IF e = <<>> THEN d ELSE Update(Put(d, Head(e).key, Head(e).value), Tail(e))

\* lookup.get(k, default) on a lookup held as a function
GetOr(lookup, k, default) == IF k \in DOMAIN lookup THEN lookup[k] ELSE default

(***************************************************************************)
(* Payloads.                                                               *)
(***************************************************************************)
List(items) == [kind |-> "list", items |-> items]
Scalar(v)   == [kind |-> "scalar", value |-> v]
\* the parsed body of a non-success response: a dict {'error': ...}
ErrorDoc    == [kind |-> "error", items |-> <<[str |-> "error"]>>]

IsList(v) == v.kind = "list"

(***************************************************************************)
(* fetch_mail                                                              *)
(***************************************************************************)
\* a mail header as the API delivers it; the id grows with the send time
Mail(day) ==
  [mail_id   |-> 1000 + day,
   timestamp |-> [iso_utc |-> day],
   from      |-> 90,
   recipients |-> <<[recipient_id |-> 91], [recipient_id |-> 92]>>]

\* line 134: the swagger timestamp, parsed from its ISO text in UTC
convert_swagger_dt(dt) == dt.iso_utc

\* line 302: back_until or utcnow() - timedelta(days=30 * 6)
DefaultBoundary == Now - BackDays
Boundary == IF back_until = <<>> THEN DefaultBoundary ELSE back_until[1]

\* line 307: the loop's exit test on data[-1]
BoundaryCrossed(d) == convert_swagger_dt(Last(d).timestamp) < Boundary

\* the cursor taken from the first mail held instead of the last
Cursor_First(d) == d[1].mail_id

\* line 309: last_mail_id=data[-1]['mail_id']
Cursor(d) == Last(d).mail_id

\* a page that is not full taken for the end of the feed
MailStops_ShortPage(new_data) == Len(new_data) < PageLen

\* line 311: if not new_data
MailStops(new_data) == new_data = <<>>

\* The mail endpoint: up to a page of the newest mail with an id below the
\* cursor (the newest mail of all without a cursor); a page may be short, and
\* is empty only when nothing is left.
Pages(rest) ==
  IF rest = <<>> THEN { <<>> }
  ELSE { SubSeq(rest, 1, k) : k \in 1..Min(PageLen, Len(rest)) }

OlderThan(cursor) == SelectSeq(feed, LAMBDA m : m.mail_id < cursor)

\* a replaying server may answer with mail up to and including the cursor's
StalePages(cursor) ==
  LET upto == SelectSeq(feed, LAMBDA m : m.mail_id >= cursor)
  IN  { SubSeq(upto, Len(upto) - k + 1, Len(upto)) : k \in 1..Min(PageLen, Len(upto)) }

MailPages(cursor) ==
  Pages(OlderThan(cursor)) \cup (IF server = "replaying" THEN StalePages(cursor) ELSE {})

NoNewMail(page, held) == Range(page) \subseteq Range(held)

\* lines 303-305
MailFirstRequest ==
  /\ pc = "fetch_mail"
  /\ \E page \in Pages(feed) :
       /\ mdata' = page
       /\ lastpage' = page
       /\ delivered' = page
  /\ fetches' = 1
  /\ pc' = "mail_loop"
  /\ UNCHANGED <<raised, exhausted, fetch_vars, mail_env, names_vars>>

\* lines 306-308; data[-1] of an empty list raises IndexError
MailLoopTest ==
  /\ pc = "mail_loop"
  /\ IF mdata = <<>>
       THEN pc' = "raised" /\ raised' = "IndexError"
       ELSE /\ pc' = IF BoundaryCrossed(mdata) THEN "mail_return" ELSE "mail_next"
            /\ UNCHANGED raised
  /\ UNCHANGED <<fetch_vars, mail_env, mail_vars, names_vars>>

\* lines 309-313
MailNextRequest ==
  /\ pc = "mail_next"
  /\ fetches < MaxFetches
  /\ \E new_data \in MailPages(Cursor(mdata)) :
       /\ lastpage' = new_data
       /\ delivered' = delivered \o new_data
       /\ exhausted' = (exhausted \/ NoNewMail(new_data, mdata))
       /\ IF MailStops(new_data)
            THEN pc' = "mail_return" /\ mdata' = mdata
            ELSE pc' = "mail_loop" /\ mdata' = mdata \o new_data
  /\ fetches' = fetches + 1
  /\ UNCHANGED <<raised, fetch_vars, mail_env, names_vars>>

(***************************************************************************)
(* resolve_names and _ids_to_names                                         *)
(***************************************************************************)
\* the name the resolver holds for an id
NameOf(id) == <<"name", id>>

\* a list item that is a record of the resource (not a stray dict key)
IsRecord(item) == "str" \notin DOMAIN item

NamedKeys == { Plain("history"), Plain("journal"), Plain("contacts"), Plain("mail") }

\* lines 238-251 iterate value and subscript each item: a value that is not a
\* list of records raises TypeError
Subscriptable(v) == IsList(v) /\ \A i \in 1..Len(v.items) : IsRecord(v.items[i])

\* lines 248-251: the ids one mail contributes
MailIds(item) ==
  <<item.from>> \o [r \in 1..Len(item.recipients) |-> item.recipients[r].recipient_id]

\* lines 239-251: the ids one entry of the dict contributes
EntryIds(key, items) ==
  CASE key = Plain("history")  -> [i \in 1..Len(items) |-> items[i].corporation_id]
    [] key = Plain("journal")  ->
         [i \in 1..(2 * Len(items)) |->
            IF i % 2 = 1 THEN items[(i + 1) \div 2].first_party_id
                         ELSE items[i \div 2].second_party_id]
    [] key = Plain("contacts") -> [i \in 1..Len(items) |-> items[i].contact_id]
    [] key = Plain("mail")     -> Flatten([i \in 1..Len(items) |-> MailIds(items[i])])
    [] OTHER -> <<>>

\* lines 237-251: the list 'ids', in the dict's iteration order
CollectIds(d) ==
  Flatten([i \in 1..Len(d) |->
             IF d[i].key \in NamedKeys THEN EntryIds(d[i].key, d[i].value.items) ELSE <<>>])

\* line 211: groups = [ids[i:i + group_size] for i in range(0, len(ids), group_size)]
NumGroups(l) == (Len(l) + group_size - 1) \div group_size
Group(l, g)  == SubSeq(l, (g - 1) * group_size + 1, Min(g * group_size, Len(l)))

\* line 215: post_universe_names(ids=set(ids)), sent for every group
Requested(l, g) == Range(l)

\* lines 222-223: later entries overwrite earlier ones
RECURSIVE Lookup(_)
Lookup(payloads) ==
  IF payloads = <<>> THEN <<>>
  ELSE Last(payloads) @@ Lookup(SubSeq(payloads, 1, Len(payloads) - 1))

\* lines 256, 259-260, 263, 266-268: item[...] = ids_lookup.get(id, '<unknown>')
NamedHistory(item, lookup) ==
  [corporation_name |-> GetOr(lookup, item.corporation_id, UNKNOWN)] @@ item

NamedJournal(item, lookup) ==
  [first_party_name  |-> GetOr(lookup, item.first_party_id, UNKNOWN),
   second_party_name |-> GetOr(lookup, item.second_party_id, UNKNOWN)] @@ item

NamedContact(item, lookup) ==
  [contact_name |-> GetOr(lookup, item.contact_id, UNKNOWN)] @@ item

NamedRecipient(recip, lookup) ==
  [recipient_name |-> GetOr(lookup, recip.recipient_id, UNKNOWN)] @@ recip

\* the sender named, the recipients left as they are
NamedMail_NoRecipients(item, lookup) ==
  [from_name |-> GetOr(lookup, item.from, UNKNOWN)] @@ item

NamedMail(item, lookup) ==
  [from_name  |-> GetOr(lookup, item.from, UNKNOWN),
   recipients |-> [r \in 1..Len(item.recipients) |->
                     NamedRecipient(item.recipients[r], lookup)]] @@ item

NamedItem(key, item, lookup) ==
  CASE key = Plain("history")  -> NamedHistory(item, lookup)
    [] key = Plain("journal")  -> NamedJournal(item, lookup)
    [] key = Plain("contacts") -> NamedContact(item, lookup)
    [] key = Plain("mail")     -> NamedMail(item, lookup)
    [] OTHER -> item

\* lines 253-268
Backfill(d, lookup) ==
  [i \in 1..Len(d) |->
     IF d[i].key \in NamedKeys
       THEN [key |-> d[i].key,
             value |-> List([j \in 1..Len(d[i].value.items) |->
                               NamedItem(d[i].key, d[i].value.items[j], lookup)])]
       ELSE d[i]]

\* lines 237-251, and 208-211 of _ids_to_names
ResolveNamesCollect ==
  /\ pc = "resolve_names"
  /\ IF \E i \in 1..Len(fetched) :
          fetched[i].key \in NamedKeys /\ ~Subscriptable(fetched[i].value)
       THEN /\ pc' = "raised"
            /\ raised' = "TypeError"
            /\ UNCHANGED names_vars
       ELSE /\ ids' = CollectIds(fetched)
            /\ group_ix' = 0
            /\ calls' = <<>>
            /\ names_data' = <<>>
            /\ pc' = "ids_to_names"
            /\ UNCHANGED <<raised, ids_lookup>>
  /\ UNCHANGED <<fetch_vars, mail_env, mail_vars>>

\* lines 212-221: one group; the call ends with a 200 response, with another
\* status (logged, continue) or with an exception (logged)
IdsToNamesGroup ==
  /\ pc = "ids_to_names"
  /\ group_ix < NumGroups(ids)
  /\ \E outcome \in {"ok", "status", "exception"} :
       LET sent == Requested(ids, group_ix + 1) IN
       /\ calls' = Append(calls, [ids |-> sent, outcome |-> outcome])
       /\ names_data' = IF outcome = "ok"
                          THEN Append(names_data, [id \in sent |-> NameOf(id)])
                          ELSE names_data
  /\ group_ix' = group_ix + 1
  /\ UNCHANGED <<pc, raised, ids, ids_lookup, fetch_vars, mail_env, mail_vars>>

\* lines 222-224 and 252
IdsToNamesReturn ==
  /\ pc = "ids_to_names"
  /\ group_ix = NumGroups(ids)
  /\ ids_lookup' = Lookup(names_data)
  /\ pc' = "backfill"
  /\ UNCHANGED <<raised, ids, group_ix, calls, names_data, fetch_vars, mail_env, mail_vars>>

\* lines 253-268
ResolveNamesBackfill ==
  /\ pc = "backfill"
  /\ fetched' = Backfill(fetched, ids_lookup)
  /\ pc' = "update"
  /\ UNCHANGED <<raised, operations, failed, results, pre, data, mail_env, mail_vars, names_vars>>

\* line 177
DataUpdate ==
  /\ pc = "update"
  /\ data' = Update(data, fetched)
  /\ pc' = "done"
  /\ UNCHANGED <<raised, operations, failed, results, fetched, pre, mail_env, mail_vars, names_vars>>

(***************************************************************************)
(* What the API holds for the character.                                   *)
(***************************************************************************)
Assets  == << [type_id |-> 34], [type_id |-> 99999] >>
History == << [corporation_id |-> 10], [corporation_id |-> 50] >>
Wallet  == 5

\* pages of one or two records; party and contact ids recur across records
JournalPage(p) ==
  [k \in 1..(IF p % 2 = 1 THEN 2 ELSE 1) |->
     [id |-> 100 * p + k, first_party_id |-> 10 * p, second_party_id |-> 10 * (p + k)]]

ContactsPage(p) == << [contact_id |-> 10 * p], [contact_id |-> 40 + p] >>

(***************************************************************************)
(* fetch                                                                   *)
(***************************************************************************)
\* lines 156-166: the keys of 'operations', in insertion order
Operations(contact_pages, journal_pages) ==
  << Plain("assets"), Plain("history"), Plain("wallet") >>
  \o [p \in 1..contact_pages |-> Key("contacts", p)]
  \o [p \in 1..journal_pages |-> Key("journal", p)]

\* the data of the response to one request
ServerData(key) ==
  CASE key.root = "assets"   -> List(Assets)
    [] key.root = "history"  -> List(History)
    [] key.root = "wallet"   -> Scalar(Wallet)
    [] key.root = "contacts" -> List(ContactsPage(key.page))
    [] key.root = "journal"  -> List(JournalPage(key.page))

ResponseData(key) == IF key \in failed THEN ErrorDoc ELSE ServerData(key)

RECURSIVE Orders(_)
\* the orders in which the responses of the requests S may come back
Orders(S) ==
  IF S = {} THEN { <<>> }
  ELSE UNION { { <<x>> \o o : o \in Orders(S \ {x}) } : x \in S }

RECURSIVE Collect(_, _)
\* lines 168-172: fetched[op_key_name] = pair[1].data, pair by pair
Collect(arrived, d) ==
  IF arrived = <<>> THEN d
  ELSE Collect(Tail(arrived), Put(d, Head(arrived), ResponseData(Head(arrived))))

\* line 167-172; no status of a response is looked at
MultiRequest ==
  /\ pc = "multi_request"
  /\ \E order \in Orders(Range(operations)) :
       /\ results' = order
       /\ fetched' = Collect(order, <<>>)
  /\ pc' = "fetch_mail"
  /\ UNCHANGED <<raised, operations, failed, pre, data, mail_env, mail_vars, names_vars>>

\* line 173
StoreMail ==
  /\ pc = "mail_return"
  /\ fetched' = Put(fetched, Plain("mail"), List(mdata))
  /\ pc' = "resolve_type_ids"
  /\ UNCHANGED <<raised, operations, failed, results, pre, data, mail_env, mail_vars, names_vars>>

\* lines 46-62, 191-194: the rows of invTypes for the ids asked for
SdeTypeNames == (34 :> <<"Tritanium">>) @@ (35 :> <<"Pyerite">>)
TypeLookup(type_ids) == [t \in (type_ids \cap DOMAIN SdeTypeNames) |-> SdeTypeNames[t]]

\* lines 190-197
TypedAssets(items) ==
  LET item_lookups == TypeLookup({ items[i].type_id : i \in 1..Len(items) })
  IN  [i \in 1..Len(items) |->
         [type_name |-> GetOr(item_lookups, items[i].type_id, UNKNOWN)] @@ items[i]]

\* line 174; item['type_id'] on a dict key raises TypeError
ResolveTypeIds ==
  /\ pc = "resolve_type_ids"
  /\ LET assets == Get(fetched, Plain("assets")) IN
     IF Subscriptable(assets)
       THEN /\ fetched' = Put(fetched, Plain("assets"), List(TypedAssets(assets.items)))
            /\ pc' = "compact"
            /\ UNCHANGED raised
       ELSE /\ pc' = "raised"
            /\ raised' = "TypeError"
            /\ UNCHANGED fetched
  /\ UNCHANGED <<operations, failed, results, pre, data, mail_env, mail_vars, names_vars>>

\* line 282: '-' in key
IsFragment(key) == key.page # 0
\* line 284: key.split('-')[0]
Root(key) == Plain(key.root)

RECURSIVE CompactFrom(_, _)
\* lines 281-289 over the entries of the copy dict(data) that are left;
\* list.extend(dict) appends the dict's keys, and a dict has no extend
CompactFrom(left, d) ==
  IF left = <<>> THEN [data |-> d, raised |-> "none"]
  ELSE LET key   == Head(left).key
           value == Head(left).value
           root  == Root(key)
       IN  IF ~IsFragment(key) THEN CompactFrom(Tail(left), d)
           ELSE IF Has(d, root)
             THEN IF IsList(Get(d, root))
                    THEN CompactFrom(Tail(left),
                           Del(Put(d, root, List(Get(d, root).items \o value.items)), key))
                    ELSE [data |-> d, raised |-> "AttributeError"]
             ELSE CompactFrom(Tail(left), Del(Put(d, root, value), key))

compact_pagination(d) == CompactFrom(d, d)

\* line 175
CompactPagination ==
  /\ pc = "compact"
  /\ pre' = fetched
  /\ LET out == compact_pagination(fetched) IN
       /\ fetched' = out.data
       /\ raised' = out.raised
       /\ pc' = IF out.raised = "none" THEN "resolve_names" ELSE "raised"
  /\ UNCHANGED <<operations, failed, results, data, mail_env, mail_vars, names_vars>>

(***************************************************************************)
(* Specifications                                                          *)
(***************************************************************************)
\* line 44: self.data holds 'verify' when fetch starts
VerifiedData == << [key |-> Plain("verify"), value |-> Scalar(1)] >>

NoFetch == /\ operations = <<>> /\ failed = {} /\ results = <<>>
           /\ fetched = <<>> /\ pre = <<>> /\ data = VerifiedData
NoMail  == /\ mdata = <<>> /\ fetches = 0 /\ lastpage = <<>>
           /\ delivered = <<>> /\ exhausted = FALSE
NoNames == /\ ids = <<>> /\ group_ix = 0 /\ calls = <<>>
           /\ names_data = <<>> /\ ids_lookup = <<>>

Days == (DefaultBoundary - 2)..(DefaultBoundary + 2)

RECURSIVE FeedOf(_)
\* the mail sent on the days S, newest first
FeedOf(S) ==
  IF S = {} THEN <<>>
  ELSE LET d == CHOOSE x \in S : \A y \in S : y <= x
       IN  <<Mail(d)>> \o FeedOf(S \ {d})

Feeds == { FeedOf(S) : S \in { T \in SUBSET Days : Cardinality(T) <= MaxMail } }

\* fetch_mail(back_until) on its own
InitMail ==
  /\ pc = "fetch_mail"
  /\ raised = "none"
  /\ feed \in Feeds
  /\ server \in {"honest", "replaying"}
  /\ back_until \in { <<>>, <<DefaultBoundary + 1>> }
  /\ NoFetch /\ NoMail /\ NoNames

NextMail == MailFirstRequest \/ MailLoopTest \/ MailNextRequest

SpecMail == InitMail /\ [][NextMail]_vars

\* a compacted dataset with a corporation history of n records
BulkDataset(n, distinct, others) ==
  << [key |-> Plain("assets"),  value |-> List(Assets)],
     [key |-> Plain("history"),
      value |-> List([i \in 1..n |-> [corporation_id |-> IF distinct THEN i ELSE 1]])],
     [key |-> Plain("wallet"),  value |-> Scalar(Wallet)],
     [key |-> Plain("mail"),
      value |-> List(IF others THEN <<Mail(DefaultBoundary + 1)>> ELSE <<>>)],
     [key |-> Plain("contacts"),
      value |-> List(IF others THEN ContactsPage(1) ELSE <<>>)],
     [key |-> Plain("journal"),
      value |-> List(IF others THEN JournalPage(1) \o JournalPage(2) ELSE <<>>)] >>

BulkSizes ==
  { n \in { k * group_size + d : k \in 0..MaxGroups, d \in {-1, 0, 1} } : n >= 0 }

\* the tail of fetch(), lines 176-177, on a compacted dataset
InitNames ==
  /\ pc = "resolve_names"
  /\ raised = "none"
  /\ \E n \in BulkSizes, distinct \in BOOLEAN, others \in BOOLEAN :
       fetched = BulkDataset(n, distinct, others)
  /\ operations = <<>> /\ failed = {} /\ results = <<>>
  /\ pre = <<>> /\ data = VerifiedData
  /\ feed = <<>> /\ server = "honest" /\ back_until = <<>>
  /\ NoMail /\ NoNames

NextNames ==
  \/ ResolveNamesCollect
  \/ IdsToNamesGroup
  \/ IdsToNamesReturn
  \/ ResolveNamesBackfill
  \/ DataUpdate

SpecNames == InitNames /\ [][NextNames]_vars

PageCounts ==
  { c \in (1..MaxTotalPages) \X (1..MaxTotalPages) : c[1] + c[2] <= MaxTotalPages }

\* the constructor, from the call of fetch() on (line 33)
Init ==
  /\ pc = "multi_request"
  /\ raised = "none"
  /\ \E c \in PageCounts : operations = Operations(c[1], c[2])
  /\ failed \in { F \in SUBSET Range(operations) : Cardinality(F) <= 1 }
  /\ results = <<>> /\ fetched = <<>> /\ pre = <<>> /\ data = VerifiedData
  /\ feed \in { FeedOf(S) : S \in { {}, {DefaultBoundary + 1},
                                    {DefaultBoundary + 1, DefaultBoundary - 1} } }
  /\ server = "honest"
  /\ back_until = <<>>
  /\ NoMail /\ NoNames

Next ==
  \/ MultiRequest
  \/ MailFirstRequest
  \/ MailLoopTest
  \/ MailNextRequest
  \/ StoreMail
  \/ ResolveTypeIds
  \/ CompactPagination
  \/ ResolveNamesCollect
  \/ IdsToNamesGroup
  \/ IdsToNamesReturn
  \/ ResolveNamesBackfill
  \/ DataUpdate

Spec == Init /\ [][Next]_vars

(***************************************************************************)
(* Properties of fetch (Spec)                                              *)
(***************************************************************************)
PageCount(root) == Cardinality({ k \in Range(operations) : k.root = root })

\* what pages 1..N of a resource hold, page after page
InPageOrder(root) ==
  Flatten([p \in 1..PageCount(root) |-> ServerData(Key(root, p)).items])

ResourceKeys ==
  { Plain(r) : r \in {"assets", "history", "wallet", "contacts", "journal", "mail"} }

\* C1: when every request succeeds, whatever the order in which the
\* responses came back, self.data holds under 'contacts' and 'journal' the
\* records of page 1, then of page 2, ..., then of page N.
C1_PageOrder ==
  (pc = "done" /\ failed = {}) =>
    \A root \in {"contacts", "journal"} :
      LET want == InPageOrder(root)
          have == Get(data, Plain(root)).items
      IN  have = [i \in 1..Len(want) |-> NamedItem(Plain(root), want[i], ids_lookup)]

\* C2: when one request of the batch got a non-success response, the run
\* never completes and self.data never holds one of the resource keys.
C2_FailureIsFatal ==
  failed # {} => (pc # "done" /\ Range(Keys(data)) \cap ResourceKeys = {})

\* C8: compact_pagination, given the fragments base-1 .. base-N of all-list
\* values, leaves no fragment key, leaves under each base the fragments
\* concatenated in index order (every record once), and leaves the other
\* keys as they were.
C8_Compaction ==
  (pc = "resolve_names" /\ failed = {}) =>
    /\ \A i \in 1..Len(fetched) : ~IsFragment(fetched[i].key)
    /\ \A root \in {"contacts", "journal"} :
         /\ Has(fetched, Plain(root))
         /\ Get(fetched, Plain(root)).items =
              Flatten([p \in 1..PageCount(root) |-> Get(pre, Key(root, p)).items])
    /\ \A k \in { Plain(r) : r \in {"assets", "history", "wallet", "mail"} } :
         Get(fetched, k) = Get(pre, k)

(***************************************************************************)
(* Properties of fetch_mail (SpecMail)                                     *)
(***************************************************************************)
Time(m) == convert_swagger_dt(m.timestamp)
AtOrNewer(s) == SelectSeq(s, LAMBDA m : Time(m) >= Boundary)
IsPrefix(s, t) == Len(s) <= Len(t) /\ s = SubSeq(t, 1, Len(s))

\* C3 as claimed: on an honestly served feed, fetch_mail returns exactly the
\* records at or newer than the boundary, and issues no request once the
\* oldest record held is older than the boundary.
C3_ExactPrefix ==
  /\ (server = "honest" /\ pc = "mail_return") => mdata = AtOrNewer(feed)
  /\ (server = "honest" /\ pc = "mail_next") => ~BoundaryCrossed(mdata)

\* C3 as amended: on an honestly served feed, whenever fetch_mail returns,
\* its result is a prefix of the feed made of the whole pages it was given;
\* it holds every record at or newer than the boundary, and the records
\* older than the boundary it holds all came in the last page fetched; no
\* request is issued once the oldest record held is older than the boundary.
C3_WholePages ==
  /\ (server = "honest" /\ pc = "mail_return") =>
       /\ IsPrefix(mdata, feed)
       /\ mdata = delivered
       /\ Range(AtOrNewer(feed)) \subseteq Range(mdata)
       /\ \A i \in 1..Len(mdata) :
            Time(mdata[i]) < Boundary => i > Len(mdata) - Len(lastpage)
  /\ (server = "honest" /\ pc = "mail_next") => ~BoundaryCrossed(mdata)

\* a scan of two requests or more that returned a record older than the
\* boundary together with the newer record delivered in the same page
C3_Witness ==
  /\ server = "honest" /\ pc = "mail_return" /\ fetches >= 2
  /\ Len(lastpage) = 2
  /\ Time(lastpage[1]) >= Boundary
  /\ Time(lastpage[2]) < Boundary
  /\ Last(mdata) = lastpage[2]

\* C4: when the request without a cursor returns an empty page, fetch_mail
\* does not raise, returns the empty list and has issued one request.
C4_EmptyFirstPage ==
  (fetches >= 1 /\ delivered = <<>>) =>
    (raised = "none" /\ fetches = 1 /\ mdata = <<>> /\ pc \in {"mail_loop", "mail_return"})

\* C9 as claimed: once a cursor request has returned no record that was not
\* already held, no further request is issued; a short page holding new
\* records does not stop the scan.
C9_StopsWhenNothingNew ==
  [][ /\ exhausted => fetches' = fetches
      /\ (pc = "mail_next" /\ ~NoNewMail(lastpage', mdata)) => pc' = "mail_loop" ]_vars

\* C9 as amended: a cursor request that returns an empty page ends the scan
\* with what was accumulated and no further request is issued; a page that
\* is not empty, be it short or made only of records already held, is
\* appended and the scan goes on.
C9_StopsOnEmptyPage ==
  [][ /\ (pc = "mail_next" /\ lastpage' = <<>>) =>
           (pc' = "mail_return" /\ mdata' = mdata)
      /\ (pc = "mail_next" /\ lastpage' # <<>>) =>
           (pc' = "mail_loop" /\ mdata' = mdata \o lastpage')
      /\ pc = "mail_return" => fetches' = fetches ]_vars

\* a scan that went on after a short page and after a page of records
\* already held, and ended on an empty page
C9_Witness ==
  /\ pc = "mail_return" /\ lastpage = <<>> /\ fetches >= 3
  /\ Len(delivered) > Cardinality(Range(delivered))
  /\ mdata = delivered

(***************************************************************************)
(* Properties of resolve_names and _ids_to_names (SpecNames)               *)
(***************************************************************************)
Ceil(n, d) == (n + d - 1) \div d
OkCalls == { k \in 1..Len(calls) : calls[k].outcome = "ok" }
\* the ids the resolver returned a name for
Resolved == UNION { calls[k].ids : k \in OkCalls }
Others(f) == UNION { Range(Group(ids, k)) : k \in (1..NumGroups(ids)) \ {f} }

\* C5: _ids_to_names issues ceil(N/1000) calls, the k-th for exactly the ids
\* of the k-th group of 1000 consecutive ids, so none for more than 1000 ids.
C5_OneCallPerGroup ==
  pc = "backfill" =>
    /\ Len(calls) = Ceil(Len(ids), 1000)
    /\ \A k \in 1..Len(calls) :
         /\ calls[k].ids = Range(Group(ids, k))
         /\ Cardinality(calls[k].ids) <= 1000

\* C6: when the call of one group fails and all the others succeed, the
\* mapping returned holds every id of the other groups and none of the ids
\* that are in the failed group only.
C6_FailedGroupAbsent ==
  pc = "backfill" =>
    \A f \in 1..Len(calls) :
      (OkCalls = (1..Len(calls)) \ {f}) =>
        /\ Others(f) \subseteq DOMAIN ids_lookup
        /\ (Range(Group(ids, f)) \ Others(f)) \cap DOMAIN ids_lookup = {}

\* C7: once resolve_names is through, whichever calls failed, every history,
\* journal, contact and mail record and every mail recipient carries its
\* name fields, each the resolver's name for the id when one was returned
\* and '<unknown>' otherwise; nothing is raised, and self.data receives the
\* named records.
NameFor(id, resolved) == IF id \in resolved THEN NameOf(id) ELSE UNKNOWN
HasField(r, f) == f \in DOMAIN r
C7_NamesPopulated ==
  /\ raised = "none" /\ pc # "raised"
  /\ pc \in {"update", "done"} =>
       LET resolved == Resolved IN
       /\ \A r \in Range(Get(fetched, Plain("history")).items) :
            /\ HasField(r, "corporation_name")
            /\ r.corporation_name = NameFor(r.corporation_id, resolved)
       /\ \A r \in Range(Get(fetched, Plain("journal")).items) :
            /\ HasField(r, "first_party_name")
            /\ r.first_party_name = NameFor(r.first_party_id, resolved)
            /\ HasField(r, "second_party_name")
            /\ r.second_party_name = NameFor(r.second_party_id, resolved)
       /\ \A r \in Range(Get(fetched, Plain("contacts")).items) :
            /\ HasField(r, "contact_name")
            /\ r.contact_name = NameFor(r.contact_id, resolved)
       /\ \A r \in Range(Get(fetched, Plain("mail")).items) :
            /\ HasField(r, "from_name")
            /\ r.from_name = NameFor(r.from, resolved)
            /\ \A q \in Range(r.recipients) :
                 /\ HasField(q, "recipient_name")
                 /\ q.recipient_name = NameFor(q.recipient_id, resolved)
  /\ pc = "done" =>
       \A k \in NamedKeys : Get(data, k) = Get(fetched, k)

\* a run over several groups whose calls all failed, published with the
\* sentinel in the journal and mail records
C7_Witness ==
  /\ pc = "done" /\ Len(calls) >= 2 /\ OkCalls = {}
  /\ Get(data, Plain("journal")).items # <<>>
  /\ \A r \in Range(Get(data, Plain("journal")).items) : r.first_party_name = UNKNOWN
  /\ \E r \in Range(Get(data, Plain("mail")).items) :
       \E q \in Range(r.recipients) : q.recipient_name = UNKNOWN

\* C10: the list resolve_names hands to _ids_to_names names each referenced
\* id once, so the calls of one run number ceil(D/1000) for D distinct ids.
C10_DistinctIdsOnce ==
  pc = "backfill" =>
    /\ Cardinality(Range(ids)) = Len(ids)
    /\ Len(calls) = Ceil(Cardinality(Range(ids)), 1000)

====
